---- MODULE Spec2Model ----
(***************************************************************************)
(* Concurrent session runtime of the socket chat: the server's session     *)
(* registry (add_client, remove_client, find_client, broadcast_message),   *)
(* the per-connection handler thread, the acceptor and its shutdown path,  *)
(* and the fixed-size frame reception used by server and client.           *)
(*                                                                         *)
(* Threads are the handlers 1..MaxConns (a handler's id is also the        *)
(* descriptor of the socket it was spawned for) and the main thread.       *)
(***************************************************************************)
EXTENDS Integers, Sequences, FiniteSets, TLC

(* ---------------------------------------------------------------- bounds *)

\* connections there are descriptors for
MaxConns == 3
\* clients that connect in a run with few clients
FewConns == 2
\* frames all clients together send after their handshakes
MaxFrames == 2
\* the same in a run with MaxConns clients
FewFrames == 1
\* frames written to the byte stream of one connection
MaxWire == 3
\* capacity of the registry (50 in the source, scaled down)
FewSlots == 2
\* the same in a run where the registry does not fill
MaxSlots == 3
\* lines the user of the client types
MaxLines == 2
\* frames the server sends to the client
MaxShown == 2
\* polls of run_client before it cancels its threads (50 in the source)
max_timeout == 2
\* bytes of the sender field and of the body field of a message whose
\* encoding is examined byte by byte (32 and 928 in the source)
NameCap == 2
BodyCap == 2
\* the largest value of such a byte, and the largest timestamp
MaxByte == 1
MaxStamp == 1

(* ------------------------------------------------------------- constants *)

MSG_CONNECT == 0
MSG_DISCONNECT == 1
MSG_CHAT == 2
MSG_NOTIFICATION == 3
MSG_ERROR == 4
MSG_KEEPALIVE == 5

BUFFER_SIZE == 1024
USERNAME_SIZE == 32
MESSAGE_SIZE == BUFFER_SIZE - USERNAME_SIZE - 64
\* sizeof(chat_message_t): 4-byte type, the two strings, padding to 8, then
\* the 8-byte timestamp and the 8-byte length
FRAME_SIZE == ((4 + USERNAME_SIZE + MESSAGE_SIZE + 7) \div 8) * 8 + 8 + 8

Conns == 1..MaxConns
\* -1 is "no thread", "no socket" and "exclude nobody"
NoOne == -1
NULL == 0

(* ------------------------------------------------------------------ names *)

\* a user name is a string of characters, here a sequence of one-character strings
Letters == {"a", "b", "c", "u", "S"}
Digits == {"1", "2", "3", "4", "5"}
NameOf(c) == <<"u", <<"1", "2", "3", "4", "5">>[c]>>
BadName == <<"b", "a", "d", " ", "!">>
Sistema == <<"S">>

\* validate_username without its test of the characters
validate_username_AnyChars(username) ==
    /\ Len(username) # 0
    /\ Len(username) < USERNAME_SIZE

validate_username(username) ==
    /\ Len(username) # 0
    /\ Len(username) < USERNAME_SIZE
    /\ \A k \in 1..Len(username) : username[k] \in Letters \cup Digits \cup {"_"}

(* --------------------------------------------------------------- messages *)

init_message(type, username, content) ==
    [type |-> type, username |-> username, content |-> content]

(* chat_message_t with its fields laid out cell by cell: the type, the bytes
   of username, the bytes of content, the timestamp, the length *)

Bytes == 0..MaxByte
NUL == 0

\* sizeof(chat_message_t) in cells
sizeof_chat_message_t == 1 + NameCap + BodyCap + 2

\* every value the type cell can hold here: the six kinds, one below, one above
TypeCells == (MSG_CONNECT - 1)..(MSG_KEEPALIVE + 1)

\* every content a chat_message_t of that layout can have
Structs ==
    [type : TypeCells, username : [1..NameCap -> Bytes], content : [1..BodyCap -> Bytes],
     timestamp : 0..MaxStamp, length : {0, sizeof_chat_message_t}]

\* memcpy(buffer, msg, sizeof(chat_message_t)): the cells of msg in order
\* at the start of buffer, the rest of buffer as it was
CopyOut(msg, buffer) ==
    [k \in DOMAIN buffer |->
        IF k = 1 THEN msg.type
        ELSE IF k <= 1 + NameCap THEN msg.username[k - 1]
        ELSE IF k <= 1 + NameCap + BodyCap THEN msg.content[k - 1 - NameCap]
        ELSE IF k = sizeof_chat_message_t - 1 THEN msg.timestamp
        ELSE IF k = sizeof_chat_message_t THEN msg.length
        ELSE buffer[k]]

\* memcpy(msg, buffer, sizeof(chat_message_t))
CopyIn(buffer) ==
    [type |-> buffer[1],
     username |-> [k \in 1..NameCap |-> buffer[1 + k]],
     content |-> [k \in 1..BodyCap |-> buffer[1 + NameCap + k]],
     timestamp |-> buffer[sizeof_chat_message_t - 1],
     length |-> buffer[sizeof_chat_message_t]]

\* serialize_message: the value returned and the buffer afterwards
serialize_message(msg, buffer, buffer_size) ==
    IF buffer_size < sizeof_chat_message_t
    THEN [ret |-> -1, buffer |-> buffer]
    ELSE [ret |-> sizeof_chat_message_t, buffer |-> CopyOut(msg, buffer)]

\* a deserialize_message that ends the sender field at its first byte
deserialize_message_FirstByte(buffer, buffer_size, msg) ==
    IF buffer_size < sizeof_chat_message_t THEN [ret |-> -1, msg |-> msg]
    ELSE IF CopyIn(buffer).type < MSG_CONNECT \/ CopyIn(buffer).type > MSG_KEEPALIVE
    THEN [ret |-> -1, msg |-> CopyIn(buffer)]
    ELSE [ret |-> 0,
          msg |-> [CopyIn(buffer) EXCEPT !.username[1] = NUL, !.content[BodyCap] = NUL]]

\* a deserialize_message without the test of the type
deserialize_message_AnyType(buffer, buffer_size, msg) ==
    IF buffer_size < sizeof_chat_message_t THEN [ret |-> -1, msg |-> msg]
    ELSE [ret |-> 0,
          msg |-> [CopyIn(buffer) EXCEPT !.username[NameCap] = NUL, !.content[BodyCap] = NUL]]

\* deserialize_message: the value returned and *msg afterwards
deserialize_message(buffer, buffer_size, msg) ==
    IF buffer_size < sizeof_chat_message_t THEN [ret |-> -1, msg |-> msg]
    ELSE IF CopyIn(buffer).type < MSG_CONNECT \/ CopyIn(buffer).type > MSG_KEEPALIVE
    THEN [ret |-> -1, msg |-> CopyIn(buffer)]
    ELSE [ret |-> 0,
          msg |-> [CopyIn(buffer) EXCEPT !.username[NameCap] = NUL, !.content[BodyCap] = NUL]]

\* what recv() hands to deserialize_message: the number of bytes received and
\* the fields found in them
RxFrame(size, type, username, content) ==
    [size |-> size, type |-> type, username |-> username, content |-> content]

deserialize_ok(f) ==
    /\ f.size >= FRAME_SIZE
    /\ ~(f.type < MSG_CONNECT \/ f.type > MSG_KEEPALIVE)

\* first frames a client may send on connection c (polite: a valid CONNECT)
FirstFrames(c, polite) ==
    IF polite THEN { RxFrame(FRAME_SIZE, MSG_CONNECT, NameOf(c), "") } ELSE
    { RxFrame(FRAME_SIZE, MSG_CONNECT, NameOf(c), ""),
      RxFrame(FRAME_SIZE, MSG_CONNECT, BadName, ""),
      RxFrame(FRAME_SIZE, MSG_CONNECT, <<>>, ""),
      RxFrame(FRAME_SIZE, MSG_CHAT, NameOf(c), "hi"),
      RxFrame(FRAME_SIZE - 1, MSG_CONNECT, NameOf(c), "") }

\* frames a client may send on connection c after its handshake
\* (forged: some carry a sender field that is not the client's own name)
LaterFrames(c, forged) ==
    { RxFrame(FRAME_SIZE, MSG_CHAT, NameOf(c), "hi") }
    \cup (IF forged THEN { RxFrame(FRAME_SIZE, MSG_CHAT, BadName, "yo") } ELSE {})
    \cup { RxFrame(FRAME_SIZE, MSG_DISCONNECT, NameOf(c), ""),
           RxFrame(FRAME_SIZE, MSG_KEEPALIVE, NameOf(c), ""),
           RxFrame(FRAME_SIZE, MSG_ERROR, NameOf(c), ""),
           RxFrame(FRAME_SIZE, MSG_KEEPALIVE + 1, NameOf(c), ""),
           RxFrame(FRAME_SIZE - 1, MSG_CHAT, NameOf(c), "hi") }

ConnectedText(name) == <<"connected", name>>
DisconnectedText(name) == <<"disconnected", name>>

(* ------------------------------------------------------------------ state *)

VARIABLES
    clients,        \* ctx->clients[]: socket_fd, username, active, disconnect_notified, thread_id
    client_count,   \* ctx->client_count
    running,        \* ctx->running
    server_socket,  \* TRUE while the listening socket is open
    clients_mutex,  \* the thread holding ctx->clients_mutex, or NoOne
    mainpc,         \* position of the main thread
    accepted,       \* connections accepted so far
    pc,             \* position of each handler thread
    loc,            \* each handler's local variables
    cancel,         \* handlers with a pending pthread_cancel
    sockOpen,       \* server-side descriptors that are open
    peer,           \* the client's end of each connection: "none", "open", "stalled"
                    \* (it has stopped reading and its buffer is full), "closed"
    sent,           \* per socket, the frames send() accepted, in order
    frames,         \* frames received after handshakes so far
    env,            \* the run: how many clients connect (conns), how many frames
                    \* they send after their handshakes (frames), the sockets
                    \* for which what reaches them is recorded in sent (tap),
                    \* whether CHAT frames come with another sender name
                    \* (forged), whether frames queued before a connection broke
                    \* are still received (queued), whether every first frame
                    \* is a valid CONNECT (polite), the capacity of the registry
                    \* (slots), the clients that may close or break off (leavers)
    wire,           \* the byte stream of one connection, seen from its receive
                    \* loop: whose loop it is (rcv), the bytes written to it (len),
                    \* the bytes recv has returned (off), the stream offsets of the
                    \* blocks deserialize_message has copied a frame from (at)
    notices,        \* per user name, the disconnect-notification broadcasts issued
    atSignal,       \* the user names of the sessions active when the signal came
    cli,            \* a client process: ctx->running, ctx->connected, whether
                    \* ctx->server_socket is open (sock), the positions of the
                    \* receive thread (rpc), the input thread (ipc) and
                    \* run_client (mpc), the line read (input), the server's end
                    \* of the connection (link), lines typed and frames shown,
                    \* whether the descriptor was open when the pending recv was
                    \* called (rfd), whether the threads have a pthread_cancel
                    \* pending (cancel), run_client's timeout_count, the frames
                    \* sent to the server after the CONNECT (out), the thread
                    \* that holds log_mutex of safe_log, the KEEPALIVE frames on
                    \* their way to the client (ka_in) and to the server (ka_out)
    codec           \* a caller of serialize_message and deserialize_message: the
                    \* message, the buffer and its size, the values returned

vars == <<clients, client_count, running, server_socket, clients_mutex, mainpc,
          accepted, pc, loc, cancel, sockOpen, peer, sent, frames, env,
          wire, notices, atSignal, cli, codec>>

regVars == <<clients, client_count>>
netVars == <<sockOpen, peer, sent>>
mainVars == <<running, server_socket, mainpc, accepted, atSignal>>
envVars == <<frames, env, wire, cli, codec>>

FreeSlot ==
    [socket_fd |-> -1, username |-> <<>>, active |-> FALSE,
     disconnect_notified |-> FALSE, thread_id |-> NoOne]

InitLoc ==
    [client |-> NULL, client_index |-> 0, rx |-> RxFrame(0, 0, <<>>, ""), username |-> <<>>,
     msg |-> init_message(0, <<>>, ""), excl |-> NoOne, i |-> 0, sent_count |-> 0,
     retpc |-> "", rc_sock |-> NoOne, rc_i |-> 0, nb |-> 0,
     active0 |-> {}, targets |-> {}, failed |-> 0, missed |-> {}]

\* the capacity of the registry and the indices of its slots
MAX_CLIENTS == env.slots
Slots == 1..MAX_CLIENTS

\* the client process where there is none, and after run_client has
\* connected, sent its CONNECT and created its two threads
\* the buffers the callers use hold one cell more than a message
CodecBuffer == 1..(sizeof_chat_message_t + 1)

\* no caller of the two conversions
NoCodec ==
    [at |-> "none", msg |-> <<>>, buffer |-> <<>>, buffer_size |-> 0, ret |-> 0,
     rx |-> <<>>, received |-> 0, out |-> <<>>, result |-> 0]

NoClient ==
    [running |-> FALSE, connected |-> FALSE, sock |-> FALSE, rpc |-> "none",
     ipc |-> "none", mpc |-> "none", input |-> <<>>, link |-> "none", typed |-> 0,
     shown |-> 0, rfd |-> FALSE, cancel |-> FALSE, timeout_count |-> 0, out |-> <<>>,
     log_mutex |-> "free", ka_in |-> 0, ka_out |-> 0]

ClientStarted ==
    [running |-> TRUE, connected |-> TRUE, sock |-> TRUE, rpc |-> "loop",
     ipc |-> "loop", mpc |-> "wait", input |-> <<>>, link |-> "up", typed |-> 0,
     shown |-> 0, rfd |-> FALSE, cancel |-> FALSE, timeout_count |-> 0, out |-> <<>>,
     log_mutex |-> "free", ka_in |-> 0, ka_out |-> 0]

\* the server after init_server_context and setup_server_socket, with the
\* clients e still to come
Start(e) ==
    /\ env = e
    /\ clients = [i \in 1..e.slots |-> FreeSlot]
    /\ client_count = 0
    /\ running = TRUE
    /\ server_socket = TRUE
    /\ clients_mutex = NoOne
    /\ mainpc = "accept"
    /\ accepted = 0
    /\ atSignal = {}
    /\ pc = [c \in Conns |-> "idle"]
    /\ loc = [c \in Conns |-> InitLoc]
    /\ cancel = {}
    /\ sockOpen = {}
    /\ peer = [c \in Conns |-> "none"]
    /\ sent = [c \in Conns |-> <<>>]
    /\ frames = 0
    /\ notices = [n \in {NameOf(c) : c \in Conns} |-> 0]

\* a byte stream nothing has been written to, read by rcv
NewWire(rcv) == [rcv |-> rcv, len |-> 0, off |-> 0, at |-> <<>>]

Init ==
    /\ Start([conns |-> FewConns, frames |-> MaxFrames, tap |-> {}, forged |-> FALSE,
              queued |-> FALSE, polite |-> FALSE, slots |-> FewSlots,
              leavers |-> Conns])
    /\ wire = NewWire("none")
    /\ cli = NoClient
    /\ codec = NoCodec

(* ---------------------------------------------------------------- sockets *)

\* what send() on descriptor s can return: an error on a closed descriptor,
\* and otherwise success or, the connection being found reset (which happens
\* to the clients that may leave), an error
SendOutcomes(s) ==
    IF s \notin sockOpen THEN {"fail"}
    ELSE IF s \in env.leavers \/ peer[s] = "closed" THEN {"ok", "fail"}
    ELSE {"ok"}

\* the peer of descriptor s once send() has returned o: a failed send has
\* found the connection gone, a successful one has found the peer reading
PeerAfter(s, o) ==
    IF s \notin sockOpen THEN peer
    ELSE IF o = "fail" THEN [peer EXCEPT ![s] = "closed"]
    ELSE IF peer[s] = "stalled" THEN [peer EXCEPT ![s] = "open"]
    ELSE peer

\* a frame in a socket's log: the thread that sent it and the number of the
\* broadcast_message call among that thread's calls (0: not a broadcast)
LogEntry(c, nb, msg) == [by |-> c, nb |-> nb, msg |-> msg]

\* the socket logs after send() of entry e on s with outcome o
AfterSend(s, e, o) ==
    IF s \in env.tap /\ o = "ok" THEN [sent EXCEPT ![s] = Append(@, e)] ELSE sent

\* send_message_to_client returning without a send()
send_message_to_client_Silent(c, client_socket, msg) == UNCHANGED <<sent, peer>>

\* send_message_to_client(client_socket, msg) by thread c
send_message_to_client(c, client_socket, msg) ==
    IF client_socket < 0
    THEN UNCHANGED <<sent, peer>>
    ELSE \E o \in SendOutcomes(client_socket) :
           /\ sent' = AfterSend(client_socket, LogEntry(c, 0, msg), o)
           /\ peer' = PeerAfter(client_socket, o)

\* SAFE_CLOSE on a descriptor
Closed(fd) == sockOpen \ {fd}

(* --------------------------------------------------------------- registry *)

ActiveSlots == {i \in Slots : clients[i].active}
ActiveSockets == {clients[i].socket_fd : i \in ActiveSlots}

\* add_client without its capacity test, taking the first slot when none is free
AddClientIndex_Overwrite ==
    IF \E i \in Slots : ~clients[i].active
    THEN CHOOSE i \in Slots : ~clients[i].active /\ \A j \in Slots : j < i => clients[j].active
    ELSE 1

\* an add_client that searches the table from its end
AddClientIndex_FromEnd ==
    IF client_count >= MAX_CLIENTS THEN -1
    ELSE IF \E i \in Slots : ~clients[i].active
         THEN CHOOSE i \in Slots :
                  ~clients[i].active /\ \A j \in Slots : j > i => clients[j].active
         ELSE -1

\* the slot add_client picks, or -1
AddClientIndex ==
    IF client_count >= MAX_CLIENTS THEN -1
    ELSE IF \E i \in Slots : ~clients[i].active
         THEN CHOOSE i \in Slots :
                  ~clients[i].active /\ \A j \in Slots : j < i => clients[j].active
         ELSE -1

\* the table after add_client has filled slot idx
AddClientSlot(idx, client_socket, username) ==
    [clients EXCEPT ![idx] = [@ EXCEPT !.socket_fd = client_socket,
                                       !.active = TRUE,
                                       !.disconnect_notified = FALSE,
                                       !.username = username]]

\* the slot the search loops of remove_client and find_client stop at, or NULL
SlotOf(client_socket) ==
    IF \E i \in Slots : clients[i].active /\ clients[i].socket_fd = client_socket
    THEN CHOOSE i \in Slots :
             /\ clients[i].active /\ clients[i].socket_fd = client_socket
             /\ \A j \in Slots : j < i =>
                    ~(clients[j].active /\ clients[j].socket_fd = client_socket)
    ELSE NULL

find_client(client_socket) == SlotOf(client_socket)

\* a remove_client that closes the socket of slot i and leaves it active
RemoveClientSlot_StaysActive(i) ==
    [clients EXCEPT ![i].socket_fd = -1]

\* the table after remove_client has released slot i
RemoveClientSlot(i) ==
    [clients EXCEPT ![i].active = FALSE, ![i].socket_fd = -1]

\* the test of broadcast_message without its comparison with exclude_socket
Qualifies_NoExclude(reg, i, exclude_socket) == reg[i].active

\* the test broadcast_message makes on slot i of table reg
Qualifies(reg, i, exclude_socket) ==
    reg[i].active /\ reg[i].socket_fd # exclude_socket

IsDisconnectNotice(msg) ==
    /\ msg.type = MSG_NOTIFICATION
    /\ Len(msg.content) = 2
    /\ msg.content[1] = "disconnected"

\* a handler calls broadcast_message(ctx, msg, exclude_socket) and goes on
\* at retpc when it returns; l holds the caller's locals at the call
BroadcastCall(c, l, msg, exclude_socket, retpc) ==
    /\ loc' = [loc EXCEPT ![c] = [l EXCEPT !.msg = msg, !.excl = exclude_socket,
                                           !.retpc = retpc, !.nb = @ + 1]]
    /\ pc' = [pc EXCEPT ![c] = "bc_lock"]
    /\ notices' = IF IsDisconnectNotice(msg)
                  THEN [notices EXCEPT ![msg.content[2]] = @ + 1]
                  ELSE notices

notify_user_connected(c, l, username, exclude_socket) ==
    BroadcastCall(c, l, init_message(MSG_NOTIFICATION, Sistema, ConnectedText(username)),
                  exclude_socket, "loop")

notify_user_disconnected(c, l, username) ==
    BroadcastCall(c, l, init_message(MSG_NOTIFICATION, Sistema, DisconnectedText(username)),
                  NoOne, "done")

(* ---------------------------------------------------- broadcast_message *)

\* the caller's locals once broadcast_message has returned: the callee's
\* frame is gone, the frame last decoded is not read again before recv()
\* overwrites it, and the caller's own frame is gone when the thread ends
Returned(l) ==
    IF l.retpc = "done" THEN InitLoc
    ELSE [l EXCEPT !.rx = InitLoc.rx, !.msg = InitLoc.msg, !.excl = NoOne, !.i = 0,
                   !.sent_count = 0,
                   !.retpc = "", !.active0 = {}, !.targets = {}, !.failed = 0,
                   !.missed = {}]

\* the slot the for loop sends to next when it stands at slot from in table
\* reg, or 0 when it runs to its end
NextTarget(reg, from, exclude_socket) ==
    LET J == {j \in Slots : j >= from /\ Qualifies(reg, j, exclude_socket)}
    IN IF J = {} THEN 0 ELSE CHOOSE j \in J : \A k \in J : j <= k

\* the active sockets other than exclude_socket that the loop passes over
\* without sending when it moves from slot from to slot to (0: to its end)
PassedOver(reg, from, to, exclude_socket) ==
    {reg[j].socket_fd : j \in {k \in Slots : /\ k >= from
                                             /\ (to = 0 \/ k < to)
                                             /\ reg[k].active
                                             /\ reg[k].socket_fd # exclude_socket}}

\* the first slot the loop sends to and what it passes over on the way, as
\* BcLock leaves them in the caller's locals
ScanStart(c) ==
    LET t == NextTarget(clients, 1, loc[c].excl)
    IN /\ loc' = [loc EXCEPT ![c].i = t, ![c].sent_count = 0,
                             ![c].active0 = ActiveSockets, ![c].targets = {},
                             ![c].failed = 0,
                             ![c].missed = PassedOver(clients, 1, t, loc[c].excl)]
       /\ pc' = [pc EXCEPT ![c] = IF t = 0 THEN "bc_unlock" ELSE "bc_send"]

\* broadcast_message entering its loop without waiting for the mutex
BcLock_NoWait(c) ==
    /\ pc[c] = "bc_lock"
    /\ clients_mutex' = c
    /\ ScanStart(c)
    /\ UNCHANGED <<regVars, netVars, mainVars, envVars, cancel, notices>>

\* the mutex is taken and the loop runs to the first slot it sends to
BcLock(c) ==
    /\ pc[c] = "bc_lock"
    /\ clients_mutex = NoOne
    /\ clients_mutex' = c
    /\ ScanStart(c)
    /\ UNCHANGED <<regVars, netVars, mainVars, envVars, cancel, notices>>

\* a broadcast_message whose loop ends at the first send() that fails
BcSend_StopOnFailure(c) ==
    /\ pc[c] = "bc_send"
    /\ c \notin cancel
    /\ LET i == loc[c].i
           s == clients[i].socket_fd
       IN \E o \in SendOutcomes(s) :
            LET reg == IF o = "ok" THEN clients
                       ELSE [clients EXCEPT ![i].active = FALSE]
                t == IF o = "ok" THEN NextTarget(reg, i + 1, loc[c].excl) ELSE 0
            IN /\ sent' = AfterSend(s, LogEntry(c, loc[c].nb, loc[c].msg), o)
               /\ peer' = PeerAfter(s, o)
               /\ clients' = reg
               /\ loc' = [loc EXCEPT ![c].i = t,
                              ![c].sent_count = IF o = "ok" THEN @ + 1 ELSE @,
                              ![c].failed = IF o = "ok" THEN @ ELSE @ + 1,
                              ![c].targets = @ \cup {s},
                              ![c].missed = @ \cup PassedOver(reg, i + 1, t, loc[c].excl)]
               /\ pc' = [pc EXCEPT ![c] = IF t = 0 THEN "bc_unlock" ELSE "bc_send"]
    /\ UNCHANGED <<client_count, sockOpen, mainVars, envVars, clients_mutex, cancel,
                   notices>>

\* send() to the slot the loop stands at, then the loop runs on to the next
\* slot it sends to
BcSend(c) ==
    /\ pc[c] = "bc_send"
    /\ c \notin cancel
    /\ LET i == loc[c].i
           s == clients[i].socket_fd
       IN \E o \in SendOutcomes(s) :
            LET reg == IF o = "ok" THEN clients
                       ELSE [clients EXCEPT ![i].active = FALSE]
                t == NextTarget(reg, i + 1, loc[c].excl)
            IN /\ sent' = AfterSend(s, LogEntry(c, loc[c].nb, loc[c].msg), o)
               /\ peer' = PeerAfter(s, o)
               /\ clients' = reg
               /\ loc' = [loc EXCEPT ![c].i = t,
                              ![c].sent_count = IF o = "ok" THEN @ + 1 ELSE @,
                              ![c].failed = IF o = "ok" THEN @ ELSE @ + 1,
                              ![c].targets = @ \cup {s},
                              ![c].missed = @ \cup PassedOver(reg, i + 1, t, loc[c].excl)]
               /\ pc' = [pc EXCEPT ![c] = IF t = 0 THEN "bc_unlock" ELSE "bc_send"]
    /\ UNCHANGED <<client_count, sockOpen, mainVars, envVars, clients_mutex, cancel,
                   notices>>

\* the mutex is released and sent_count returned
BcUnlock(c) ==
    /\ pc[c] = "bc_unlock"
    /\ clients_mutex' = NoOne
    /\ pc' = [pc EXCEPT ![c] = loc[c].retpc]
    /\ loc' = [loc EXCEPT ![c] = Returned(loc[c])]
    /\ UNCHANGED <<regVars, netVars, mainVars, envVars, cancel, notices>>

(* --------------------------------------------------------- remove_client *)

\* handle_client_disconnect up to the point where remove_client asks for
\* the mutex: the user name and the socket are read from the slot the
\* handler points at
Hcd(c) ==
    /\ pc[c] = "hcd"
    /\ LET slot == clients[loc[c].client]
           l == [loc[c] EXCEPT !.username = slot.username, !.rc_sock = slot.socket_fd]
       IN IF ~running
          THEN /\ notify_user_disconnected(c, l, slot.username)
          ELSE /\ loc' = [loc EXCEPT ![c] = l]
               /\ pc' = [pc EXCEPT ![c] = "rc_lock"]
               /\ UNCHANGED notices
    /\ UNCHANGED <<regVars, netVars, mainVars, envVars, clients_mutex, cancel>>

\* remove_client from taking the mutex to its first release of it
RcLock(c) ==
    /\ pc[c] = "rc_lock"
    /\ clients_mutex = NoOne
    /\ LET i == SlotOf(loc[c].rc_sock)
       IN IF i = NULL
          THEN /\ notify_user_disconnected(c, loc[c], loc[c].username)
               /\ UNCHANGED <<regVars, sockOpen>>
          ELSE IF clients[i].disconnect_notified
          THEN /\ clients' = RemoveClientSlot(i)
               /\ sockOpen' = Closed(clients[i].socket_fd)
               /\ client_count' = client_count - 1
               /\ notify_user_disconnected(c, loc[c], loc[c].username)
          ELSE /\ clients' = [clients EXCEPT ![i].disconnect_notified = TRUE]
               /\ BroadcastCall(c, [loc[c] EXCEPT !.rc_i = i],
                      init_message(MSG_NOTIFICATION, Sistema,
                                   DisconnectedText(clients[i].username)),
                      loc[c].rc_sock, "rc_relock")
               /\ UNCHANGED <<client_count, sockOpen>>
    /\ UNCHANGED <<peer, sent, mainVars, envVars, clients_mutex, cancel>>

\* remove_client after its notification broadcast
RcRelock(c) ==
    /\ pc[c] = "rc_relock"
    /\ clients_mutex = NoOne
    /\ LET i == loc[c].rc_i
       IN /\ clients' = RemoveClientSlot(i)
          /\ sockOpen' = Closed(clients[i].socket_fd)
          /\ client_count' = client_count - 1
    /\ notify_user_disconnected(c, loc[c], loc[c].username)
    /\ UNCHANGED <<peer, sent, mainVars, envVars, clients_mutex, cancel>>

(* -------------------------------------------------- handle_client_thread *)

\* the handler ends before it has a slot: the socket is closed
EndUnregistered(c) ==
    /\ sockOpen' = Closed(c)
    /\ pc' = [pc EXCEPT ![c] = "done"]
    /\ loc' = [loc EXCEPT ![c] = InitLoc]

\* the first recv, the decoding of the first frame, the name check and
\* add_client, with the error replies
HsRecv(c) ==
    /\ pc[c] = "hs_recv"
    /\ \/ /\ c \in env.leavers
          /\ peer' = [peer EXCEPT ![c] = "closed"]
          /\ EndUnregistered(c)
          /\ UNCHANGED <<regVars, sent>>
       \/ /\ peer[c] # "closed"
          /\ \E f \in FirstFrames(c, env.polite) :
               IF ~deserialize_ok(f) \/ f.type # MSG_CONNECT
               THEN /\ EndUnregistered(c)
                    /\ UNCHANGED <<regVars, sent, peer>>
               ELSE IF ~validate_username(f.username)
               THEN /\ send_message_to_client(c, c,
                           init_message(MSG_ERROR, Sistema, <<"invalid_username">>))
                    /\ sockOpen' = Closed(c)
                    /\ pc' = [pc EXCEPT ![c] = "done"]
                    /\ loc' = [loc EXCEPT ![c].rx = f]
                    /\ UNCHANGED regVars
               ELSE /\ clients_mutex = NoOne
                    /\ LET client_index == AddClientIndex
                       IN IF client_index < 0
                          THEN /\ send_message_to_client(c, c,
                                      init_message(MSG_ERROR, Sistema, <<"server_full">>))
                               /\ sockOpen' = Closed(c)
                               /\ pc' = [pc EXCEPT ![c] = "done"]
                               /\ loc' = [loc EXCEPT ![c].client_index = client_index]
                               /\ UNCHANGED regVars
                          ELSE /\ clients' = AddClientSlot(client_index, c, f.username)
                               /\ client_count' = client_count + 1
                               /\ loc' = [loc EXCEPT ![c].rx = f]
                               /\ pc' = [pc EXCEPT ![c] = "hs_find"]
                               /\ UNCHANGED <<sockOpen, sent, peer>>
    /\ UNCHANGED <<mainVars, envVars, clients_mutex, cancel, notices>>

\* find_client (no mutex taken) and the store of the thread id
HsFind(c) ==
    /\ pc[c] = "hs_find"
    /\ LET i == find_client(c)
       IN IF i = NULL
          THEN /\ EndUnregistered(c)
               /\ UNCHANGED clients
          ELSE /\ clients' = [clients EXCEPT ![i].thread_id = c]
               /\ loc' = [loc EXCEPT ![c].client = i]
               /\ pc' = [pc EXCEPT ![c] = "hs_welcome"]
               /\ UNCHANGED sockOpen
    /\ UNCHANGED <<client_count, peer, sent, mainVars, envVars, clients_mutex, cancel,
                   notices>>

\* the welcome sent to the new socket, then notify_user_connected
HsWelcome(c) ==
    /\ pc[c] = "hs_welcome"
    /\ c \notin cancel
    /\ send_message_to_client(c, c, init_message(MSG_NOTIFICATION, Sistema, <<"welcome">>))
    /\ notify_user_connected(c, [loc[c] EXCEPT !.rx = InitLoc.rx], loc[c].rx.username, c)
    /\ UNCHANGED <<regVars, sockOpen, mainVars, envVars, clients_mutex, cancel>>

\* the test of the receive loop
Loop(c) ==
    /\ pc[c] = "loop"
    /\ pc' = [pc EXCEPT ![c] = IF running /\ clients[loc[c].client].active
                               THEN "recv" ELSE "hcd"]
    /\ UNCHANGED <<regVars, netVars, mainVars, envVars, clients_mutex, loc, cancel,
                   notices>>

\* recv in the loop, the decoding, and process_client_message up to its
\* first send
Recv(c) ==
    /\ pc[c] = "recv"
    /\ c \notin cancel
    /\ \/ /\ c \in env.leavers \/ peer[c] = "closed" \/ c \notin sockOpen
          /\ peer' = IF c \in sockOpen THEN [peer EXCEPT ![c] = "closed"] ELSE peer
          /\ pc' = [pc EXCEPT ![c] = "hcd"]
          /\ UNCHANGED <<clients, loc, frames, notices>>
       \/ /\ peer[c] # "closed" \/ env.queued
          /\ c \in sockOpen
          /\ UNCHANGED peer
          /\ frames < env.frames
          /\ frames' = frames + 1
          /\ \E f \in LaterFrames(c, env.forged) :
               LET client == loc[c].client
               IN IF ~deserialize_ok(f)
                  THEN /\ pc' = [pc EXCEPT ![c] = "loop"]
                       /\ UNCHANGED <<clients, loc, notices>>
                  ELSE IF f.type = MSG_CHAT
                  THEN /\ BroadcastCall(c, [loc[c] EXCEPT !.rx = f],
                              init_message(MSG_CHAT, clients[client].username, f.content),
                              NoOne, "loop")
                       /\ UNCHANGED clients
                  ELSE IF f.type = MSG_DISCONNECT
                  THEN /\ clients' = [clients EXCEPT ![client].disconnect_notified = TRUE]
                       /\ BroadcastCall(c, loc[c],
                              init_message(MSG_NOTIFICATION, Sistema,
                                           DisconnectedText(clients[client].username)),
                              clients[client].socket_fd, "pm_deact")
                  ELSE IF f.type = MSG_KEEPALIVE
                  THEN /\ pc' = [pc EXCEPT ![c] = "ka_send"]
                       /\ UNCHANGED <<clients, loc, notices>>
                  ELSE /\ pc' = [pc EXCEPT ![c] = "loop"]
                       /\ UNCHANGED <<clients, loc, notices>>
    /\ UNCHANGED <<client_count, sockOpen, sent, mainVars, env, wire, cli, codec, clients_mutex,
                   cancel>>

\* the end of the MSG_DISCONNECT case: the slot is marked inactive by the
\* handler itself and process_client_message returns -1
PmDeact(c) ==
    /\ pc[c] = "pm_deact"
    /\ clients' = [clients EXCEPT ![loc[c].client].active = FALSE]
    /\ pc' = [pc EXCEPT ![c] = "hcd"]
    /\ UNCHANGED <<client_count, netVars, mainVars, envVars, clients_mutex, loc, cancel,
                   notices>>

\* a MSG_KEEPALIVE case that replies to the socket of the first slot
KaSend_FirstSlot(c) ==
    /\ pc[c] = "ka_send"
    /\ c \notin cancel
    /\ send_message_to_client(c, clients[1].socket_fd,
                              init_message(MSG_KEEPALIVE, Sistema, ""))
    /\ pc' = [pc EXCEPT ![c] = "loop"]
    /\ UNCHANGED <<regVars, sockOpen, mainVars, envVars, clients_mutex, loc, cancel,
                   notices>>

\* the MSG_KEEPALIVE case: the reply to the slot's socket
KaSend(c) ==
    /\ pc[c] = "ka_send"
    /\ c \notin cancel
    /\ send_message_to_client(c, clients[loc[c].client].socket_fd,
                              init_message(MSG_KEEPALIVE, Sistema, ""))
    /\ pc' = [pc EXCEPT ![c] = "loop"]
    /\ UNCHANGED <<regVars, sockOpen, mainVars, envVars, clients_mutex, loc, cancel,
                   notices>>

\* a handler with a cancellation pending ends at its next recv or send
Cancelled(c) ==
    /\ c \in cancel
    /\ pc[c] \in {"hs_welcome", "recv", "ka_send", "bc_send"}
    /\ pc' = [pc EXCEPT ![c] = "cancelled"]
    /\ loc' = [loc EXCEPT ![c] = InitLoc]
    /\ UNCHANGED <<regVars, netVars, mainVars, envVars, clients_mutex, cancel, notices>>

(* ------------------------------------------------ acceptor and shutdown *)

\* accept() returns a new connection and a detached handler is spawned for it
Accept ==
    /\ mainpc = "accept"
    /\ running /\ server_socket
    /\ accepted < env.conns
    /\ LET c == accepted + 1
       IN /\ accepted' = c
          /\ sockOpen' = sockOpen \cup {c}
          /\ peer' = [peer EXCEPT ![c] = "open"]
          /\ pc' = [pc EXCEPT ![c] = "hs_recv"]
    /\ UNCHANGED <<regVars, running, server_socket, mainpc, atSignal, envVars,
                   clients_mutex, loc,
                   cancel, sent, notices>>

\* SIGINT or SIGTERM: signal_handler, after which accept() fails and the
\* accept loop is left
Signal ==
    /\ mainpc = "accept"
    /\ running
    /\ running' = FALSE
    /\ server_socket' = FALSE
    /\ mainpc' = "cleanup"
    /\ atSignal' = {clients[i].username : i \in ActiveSlots}
    /\ UNCHANGED <<regVars, netVars, accepted, envVars, clients_mutex, pc, loc, cancel,
                   notices>>

\* cleanup_server_context under the mutex
Cleanup ==
    /\ mainpc = "cleanup"
    /\ clients_mutex = NoOne
    /\ clients' = [i \in Slots |->
                     IF clients[i].active
                     THEN [clients[i] EXCEPT !.active = FALSE, !.socket_fd = -1]
                     ELSE clients[i]]
    /\ sockOpen' = sockOpen \ ActiveSockets
    /\ cancel' = cancel \cup ({clients[i].thread_id : i \in ActiveSlots} \ {NoOne})
    /\ client_count' = 0
    /\ running' = FALSE
    /\ server_socket' = FALSE
    /\ mainpc' = "cleaned"
    /\ UNCHANGED <<accepted, atSignal, envVars, clients_mutex, pc, loc,
                   peer, sent, notices>>

\* accept() returns -1, interrupted by a signal that is not a termination
\* signal (EINTR) or with another error
AcceptFails ==
    /\ mainpc = "accept"
    /\ running /\ server_socket
    /\ \E e \in {"eintr", "error"} : mainpc' = e
    /\ UNCHANGED <<regVars, netVars, running, server_socket, accepted, atSignal, envVars,
                   clients_mutex, pc, loc, cancel, notices>>

\* an accept loop that is left after EINTR too
AcceptRetry_Leaves ==
    /\ mainpc = "eintr"
    /\ mainpc' = "cleanup"
    /\ UNCHANGED <<regVars, netVars, running, server_socket, accepted, atSignal, envVars,
                   clients_mutex, pc, loc, cancel, notices>>

\* after EINTR: continue, and the test of the accept loop
AcceptRetry ==
    /\ mainpc = "eintr"
    /\ mainpc' = IF running THEN "accept" ELSE "cleanup"
    /\ UNCHANGED <<regVars, netVars, running, server_socket, accepted, atSignal, envVars,
                   clients_mutex, pc, loc, cancel, notices>>

\* after another error of accept(): the break out of the accept loop
AcceptError ==
    /\ mainpc = "error"
    /\ mainpc' = "cleanup"
    /\ UNCHANGED <<regVars, netVars, running, server_socket, accepted, atSignal, envVars,
                   clients_mutex, pc, loc, cancel, notices>>

\* accept() returns a new connection, malloc or pthread_create fails: the
\* new socket is closed and the loop goes on
SpawnFails ==
    /\ mainpc = "accept"
    /\ running /\ server_socket
    /\ accepted < env.conns
    /\ accepted' = accepted + 1
    /\ UNCHANGED <<regVars, netVars, running, server_socket, mainpc, atSignal, envVars,
                   clients_mutex, pc, loc, cancel, notices>>

(* ------------------------------------------------------------- the peers *)

\* the descriptor the send() that handler c stands at writes to
SendTarget(c) ==
    IF pc[c] = "bc_send" THEN clients[loc[c].i].socket_fd
    ELSE IF pc[c] = "ka_send" THEN clients[loc[c].client].socket_fd
    ELSE c

\* the peer has stopped reading and its buffer is full: the send() that
\* handler c has reached does not return
SendBlocks(c) ==
    /\ pc[c] \in {"bc_send", "ka_send", "hs_welcome"}
    /\ c \notin cancel
    /\ LET s == SendTarget(c)
       IN /\ s \in sockOpen
          /\ peer[s] = "open"
          /\ peer' = [peer EXCEPT ![s] = "stalled"]
    /\ UNCHANGED <<regVars, mainVars, envVars, clients_mutex, pc, loc, cancel, sockOpen,
                   sent, notices>>

(* ----------------------------------------------------------- byte stream *)

\* the sender's send() of one serialized frame: sizeof(chat_message_t) bytes
WireSend ==
    /\ wire.rcv # "none"
    /\ wire.len < MaxWire * FRAME_SIZE
    /\ wire' = [wire EXCEPT !.len = @ + FRAME_SIZE]
    /\ UNCHANGED <<regVars, netVars, mainVars, frames, env, cli, codec, clients_mutex, pc, loc,
                   cancel, notices>>

\* the byte counts recv(fd, buffer, sizeof(buffer), 0) can return when avail
\* bytes of the stream are unread
RecvSizes(avail) ==
    {n \in {FRAME_SIZE \div 2, FRAME_SIZE - 1, FRAME_SIZE, FRAME_SIZE + 1, BUFFER_SIZE,
            avail} :
        n >= 1 /\ n <= avail /\ n <= BUFFER_SIZE}

\* the size test of deserialize_message
deserialize_size_ok(buffer_size) == buffer_size >= FRAME_SIZE

\* one turn of a receive loop: recv, then deserialize_message on what it
\* returned; the bytes recv returned are gone from the stream either way
RecvTurn ==
    \E received \in RecvSizes(wire.len - wire.off) :
        wire' = [wire EXCEPT !.off = @ + received,
                             !.at = IF deserialize_size_ok(received)
                                    THEN Append(@, wire.off) ELSE @]

\* the loop of handle_client_thread
ServerRecv ==
    /\ wire.rcv = "server"
    /\ RecvTurn
    /\ UNCHANGED <<regVars, netVars, mainVars, frames, env, cli, codec, clients_mutex, pc, loc,
                   cancel, notices>>

\* the loop of receive_thread_func
ClientRecv ==
    /\ wire.rcv = "client"
    /\ RecvTurn
    /\ UNCHANGED <<regVars, netVars, mainVars, frames, env, cli, codec, clients_mutex, pc, loc,
                   cancel, notices>>

(* ---------------------------------------------------------------- client *)

\* everything but the client process
serverVars == <<regVars, netVars, mainVars, frames, env, wire, clients_mutex, pc, loc,
                cancel, notices, codec>>

\* the lines a user types, as the characters before the newline: the
\* commands that end the session, two other commands, a line that starts
\* like a command and is none, a chat message, an empty line
Lines ==
    { <<"/", "q", "u", "i", "t">>, <<"/", "q">>, <<"/", "h", "e", "l", "p">>,
      <<"/", "s">>, <<"/", "f", "o", "o">>, <<"h", "i">>, <<>> }

\* a thread of the client has returned or has been cancelled
Over(p) == p \in {"done", "cancelled"}

\* a process_client_command that takes no line for a command
process_client_command_Never(input) == 0

\* the return value of process_client_command: 0 when the line is to be sent
\* as a chat message, 1 when it has been dealt with as a command
process_client_command(input) == IF input[1] # "/" THEN 0 ELSE 1

\* the lines on which process_client_command ends the session
IsQuit(input) == input \in { <<"/", "q", "u", "i", "t">>, <<"/", "q">> }

\* the server closes the connection, or the connection breaks
LinkDown ==
    /\ cli.link = "up"
    /\ cli' = [cli EXCEPT !.link = "down"]
    /\ UNCHANGED serverVars

\* SIGINT or SIGTERM in the client: client_signal_handler, which writes its
\* line with safe_log and clears running
client_signal_handler ==
    /\ cli.mpc \in {"wait", "poll", "test", "join"}
    /\ cli.running
    /\ cli.log_mutex = "free"
    /\ cli' = [cli EXCEPT !.running = FALSE]
    /\ UNCHANGED serverVars

\* receive_thread_func: the test of its while loop, and the call of recv on
\* the descriptor as it is then
ReceiveLoop ==
    /\ cli.rpc = "loop"
    /\ cli' = [cli EXCEPT !.rpc = IF cli.running /\ cli.connected THEN "recv" ELSE "exit",
                          !.rfd = cli.sock]
    /\ UNCHANGED serverVars

\* receive_thread_func: recv and what follows it. recv is a cancellation
\* point. Called on a closed descriptor, or once the server has left, it
\* returns <= 0; a frame is handed to process_server_message, which changes
\* neither flag; with nothing to receive it does not return
ReceiveRecv ==
    /\ cli.rpc = "recv"
    /\ IF cli.cancel
       THEN cli' = [cli EXCEPT !.rpc = "cancelled"]
       ELSE \/ /\ ~cli.rfd \/ cli.link = "down"
               /\ cli' = [cli EXCEPT !.rpc = "fail"]
            \/ /\ cli.rfd /\ cli.link = "up"
               /\ cli.shown < MaxShown
               /\ cli' = [cli EXCEPT !.shown = @ + 1, !.rpc = "loop"]
    /\ UNCHANGED serverVars

\* safe_log: a thread at position p takes log_mutex
SafeLogLock(thread, p) ==
    /\ cli[thread] = p
    /\ cli.log_mutex = "free"
    /\ cli' = [cli EXCEPT ![thread] = p \o "_log", !.log_mutex = thread]

\* safe_log: the output, where a pending cancellation may end the thread
\* with log_mutex held, and the unlock
SafeLogCancelled(thread, p) ==
    /\ cli[thread] = p \o "_log"
    /\ cli.log_mutex = thread
    /\ cli.cancel

\* receive_thread_func after recv returned <= 0: the line written with
\* safe_log, then both flags cleared and the loop left
ReceiveFail ==
    /\ \/ SafeLogLock("rpc", "fail")
       \/ /\ cli.rpc = "fail_log"
          /\ \/ cli' = [cli EXCEPT !.log_mutex = "free", !.connected = FALSE,
                                    !.running = FALSE, !.rpc = "exit"]
             \/ /\ SafeLogCancelled("rpc", "fail")
                /\ cli' = [cli EXCEPT !.rpc = "cancelled"]
    /\ UNCHANGED serverVars

\* receive_thread_func after its loop: the last line written with safe_log,
\* and the return
ReceiveExit ==
    /\ \/ SafeLogLock("rpc", "exit")
       \/ /\ cli.rpc = "exit_log"
          /\ \/ cli' = [cli EXCEPT !.log_mutex = "free", !.rpc = "done"]
             \/ /\ SafeLogCancelled("rpc", "exit")
                /\ cli' = [cli EXCEPT !.rpc = "cancelled"]
    /\ UNCHANGED serverVars

\* receive_thread_func: recv returns a KEEPALIVE frame and
\* process_server_message answers it with a KEEPALIVE frame, which is lost
\* when the descriptor is closed by then
ClientKeepalive ==
    /\ cli.rpc = "recv"
    /\ ~cli.cancel
    /\ cli.rfd /\ cli.link = "up"
    /\ cli.ka_in > 0
    /\ cli' = [cli EXCEPT !.ka_in = @ - 1,
                          !.ka_out = IF cli.sock THEN @ + 1 ELSE @,
                          !.rpc = "loop"]
    /\ UNCHANGED serverVars

\* the client's handler in the server: recv returns a KEEPALIVE frame and
\* the MSG_KEEPALIVE case of process_client_message answers it
ServerKeepalive ==
    /\ cli.link = "up"
    /\ cli.ka_out > 0
    /\ cli' = [cli EXCEPT !.ka_out = @ - 1, !.ka_in = @ + 1]
    /\ UNCHANGED serverVars

\* input_thread_func after its loop: the last line written with safe_log,
\* and the return
InputExit ==
    /\ \/ SafeLogLock("ipc", "exit")
       \/ /\ cli.ipc = "exit_log"
          /\ \/ cli' = [cli EXCEPT !.log_mutex = "free", !.ipc = "done"]
             \/ /\ SafeLogCancelled("ipc", "exit")
                /\ cli' = [cli EXCEPT !.ipc = "cancelled"]
    /\ UNCHANGED serverVars

\* input_thread_func: the test of its while loop
InputLoop ==
    /\ cli.ipc = "loop"
    /\ cli' = [cli EXCEPT !.ipc = IF cli.running /\ cli.connected THEN "select" ELSE "exit"]
    /\ UNCHANGED serverVars

\* input_thread_func: select on stdin, a cancellation point, returns after
\* its timeout, with an error other than EINTR, or with a line that
\* read_user_input then reads
InputSelect ==
    /\ cli.ipc = "select"
    /\ IF cli.cancel
       THEN cli' = [cli EXCEPT !.ipc = "cancelled"]
       ELSE \/ cli' = [cli EXCEPT !.ipc = "loop"]
            \/ cli' = [cli EXCEPT !.ipc = "exit"]
            \/ /\ cli.typed < MaxLines
               /\ \E line \in Lines :
                    cli' = [cli EXCEPT !.typed = @ + 1, !.input = line, !.ipc = "read"]
    /\ UNCHANGED serverVars

\* input_thread_func: a line of length 0 is skipped; otherwise the flags are
\* tested again
InputRead ==
    /\ cli.ipc = "read"
    /\ cli' = [cli EXCEPT !.ipc = IF Len(cli.input) = 0 THEN "loop"
                                 ELSE IF ~cli.running \/ ~cli.connected THEN "exit"
                                 ELSE "command"]
    /\ UNCHANGED serverVars

\* what send() of the client can return: an error on a closed descriptor,
\* success, or an error once the server has left
ClientSendOutcomes ==
    IF ~cli.sock THEN {"fail"}
    ELSE IF cli.link = "down" THEN {"ok", "fail"}
    ELSE {"ok"}

\* the frames sent to the server after send() of msg has returned o
ClientSent(msg, o) == IF o = "ok" THEN Append(cli.out, msg) ELSE cli.out

\* input_thread_func: process_client_command up to its send of the
\* DISCONNECT frame and, for a line that is no command, send_chat_message,
\* whose failure ends the loop; the output of a command and send() are
\* cancellation points
InputCommand ==
    /\ cli.ipc = "command"
    /\ IF cli.cancel
       THEN cli' = [cli EXCEPT !.ipc = "cancelled"]
       ELSE IF process_client_command(cli.input) = 0
       THEN IF ~cli.connected
            THEN cli' = [cli EXCEPT !.ipc = "exit"]
            ELSE \E o \in ClientSendOutcomes :
                   cli' = [cli EXCEPT
                             !.out = ClientSent(init_message(MSG_CHAT, <<"u">>, cli.input), o),
                             !.ipc = IF o = "ok" THEN "loop" ELSE "exit"]
       ELSE IF IsQuit(cli.input)
       THEN \E o \in ClientSendOutcomes :
              cli' = [cli EXCEPT
                        !.out = ClientSent(init_message(MSG_DISCONNECT, <<"u">>, ""), o),
                        !.ipc = "quit"]
       ELSE cli' = [cli EXCEPT !.ipc = "loop"]
    /\ UNCHANGED serverVars

\* the same as InputQuit but for ctx->connected, which is left set
InputQuit_StaysConnected ==
    /\ cli.ipc = "quit"
    /\ cli' = [cli EXCEPT !.running = FALSE,
                          !.sock = IF cli.cancel THEN @ ELSE FALSE,
                          !.ipc = IF cli.cancel THEN "cancelled" ELSE "loop"]
    /\ UNCHANGED serverVars

\* process_client_command, the end of /quit: both flags cleared, then
\* SAFE_CLOSE, whose close() is a cancellation point
InputQuit ==
    /\ cli.ipc = "quit"
    /\ cli' = [cli EXCEPT !.running = FALSE, !.connected = FALSE,
                          !.sock = IF cli.cancel THEN @ ELSE FALSE,
                          !.ipc = IF cli.cancel THEN "cancelled" ELSE "loop"]
    /\ UNCHANGED serverVars

\* a run_client that does not wait for a flag to be cleared
ClientWait_NoTest ==
    /\ cli.mpc = "wait"
    /\ cli' = [cli EXCEPT !.mpc = "poll"]
    /\ UNCHANGED serverVars

\* run_client: the loop that waits while both flags are set
ClientWait ==
    /\ cli.mpc = "wait"
    /\ ~(cli.running /\ cli.connected)
    /\ cli' = [cli EXCEPT !.mpc = "poll"]
    /\ UNCHANGED serverVars

\* run_client: one turn of the loop that polls the threads with
\* pthread_kill(thread, 0), which may or may not report a thread that has
\* ended and is not joined yet as gone
ClientPoll ==
    /\ cli.mpc = "poll"
    /\ IF cli.timeout_count < max_timeout
       THEN \/ cli' = [cli EXCEPT !.timeout_count = @ + 1]
            \/ /\ Over(cli.rpc) /\ Over(cli.ipc)
               /\ cli' = [cli EXCEPT !.timeout_count = @ + 1, !.mpc = "test"]
       ELSE cli' = [cli EXCEPT !.mpc = "test"]
    /\ UNCHANGED serverVars

\* run_client: when the polls ran out, a line written with safe_log and
\* pthread_cancel of both threads
ClientCancel ==
    /\ cli.mpc = "test"
    /\ cli.timeout_count >= max_timeout => cli.log_mutex = "free"
    /\ cli' = [cli EXCEPT !.cancel = (cli.timeout_count >= max_timeout), !.mpc = "join"]
    /\ UNCHANGED serverVars

\* run_client: the two pthread_join
ClientJoin ==
    /\ cli.mpc = "join"
    /\ Over(cli.rpc) /\ Over(cli.ipc)
    /\ cli' = [cli EXCEPT !.mpc = "cleanup"]
    /\ UNCHANGED serverVars

\* cleanup_client_context, which starts with a line written with safe_log,
\* its disconnect_from_server, and the return
ClientCleanup ==
    /\ cli.mpc = "cleanup"
    /\ cli.log_mutex = "free"
    /\ IF ~cli.connected
       THEN cli' = [cli EXCEPT !.running = FALSE, !.mpc = "out"]
       ELSE \E o \in ClientSendOutcomes :
              cli' = [cli EXCEPT
                        !.running = FALSE,
                        !.out = IF cli.sock
                                THEN ClientSent(init_message(MSG_DISCONNECT, <<"u">>, ""), o)
                                ELSE @,
                        !.sock = FALSE, !.connected = FALSE, !.mpc = "out"]
    /\ UNCHANGED serverVars

(* ----------------------------------------------------------------- codec *)

\* everything but the caller of the conversions
notCodec == <<regVars, netVars, mainVars, frames, env, wire, cli, clients_mutex, pc, loc,
              cancel, notices>>

\* a sender calls serialize_message on its message and its buffer
Serialize ==
    /\ codec.at = "start"
    /\ LET r == serialize_message(codec.msg, codec.buffer, codec.buffer_size)
       IN codec' = [codec EXCEPT !.at = IF r.ret > 0 THEN "encoded" ELSE "refused",
                                 !.ret = r.ret, !.buffer = r.buffer]
    /\ UNCHANGED notCodec

\* the ret bytes that were sent arrive, and the receiver calls
\* deserialize_message on them
RoundTrip ==
    /\ codec.at = "encoded"
    /\ LET r == deserialize_message(codec.buffer, codec.ret, codec.out)
       IN codec' = [codec EXCEPT !.at = "round", !.rx = codec.buffer,
                                 !.received = codec.ret, !.out = r.msg, !.result = r.ret]
    /\ UNCHANGED notCodec

\* a receiver calls deserialize_message on whatever bytes it received
Deserialize ==
    /\ codec.at = "start"
    /\ LET r == deserialize_message(codec.rx, codec.received, codec.out)
       IN codec' = [codec EXCEPT !.at = "decoded", !.out = r.msg, !.result = r.ret]
    /\ UNCHANGED notCodec

(* ------------------------------------------------------------------ Next *)

Serving(c) ==
    \/ HsRecv(c) \/ HsFind(c) \/ HsWelcome(c)
    \/ Loop(c) \/ Recv(c) \/ PmDeact(c) \/ KaSend(c)
    \/ Hcd(c) \/ RcLock(c) \/ RcRelock(c)
    \/ BcLock(c) \/ BcSend(c) \/ BcUnlock(c)
    \/ SendBlocks(c)

\* the server with its shutdown path, few clients
Next ==
    \/ Accept \/ Signal \/ Cleanup
    \/ \E c \in Conns : Serving(c) \/ Cancelled(c)

Spec == Init /\ [][Next]_vars

\* the server whose accept() and whose spawning of handlers can fail, with
\* no termination signal
InitAccept ==
    /\ Start([conns |-> FewConns, frames |-> FewFrames, tap |-> {}, forged |-> FALSE,
              queued |-> FALSE, polite |-> FALSE, slots |-> FewSlots,
              leavers |-> Conns])
    /\ wire = NewWire("none")
    /\ cli = NoClient
    /\ codec = NoCodec

NextAccept ==
    \/ Accept \/ AcceptFails \/ AcceptRetry \/ AcceptError \/ SpawnFails \/ Cleanup
    \/ \E c \in Conns : Serving(c) \/ Cancelled(c)

SpecAccept == InitAccept /\ [][NextAccept]_vars

\* the server while it runs, MaxConns clients
InitServe ==
    /\ Start([conns |-> MaxConns, frames |-> FewFrames, tap |-> {}, forged |-> FALSE,
              queued |-> FALSE, polite |-> FALSE, slots |-> FewSlots,
              leavers |-> Conns])
    /\ wire = NewWire("none")
    /\ cli = NoClient
    /\ codec = NoCodec

NextServe ==
    \/ Accept
    \/ \E c \in Conns : Serving(c)

SpecServe == InitServe /\ [][NextServe]_vars

\* the server while it runs, few clients, what reaches them recorded
InitTap ==
    /\ Start([conns |-> FewConns, frames |-> MaxFrames, tap |-> Conns, forged |-> FALSE,
              queued |-> FALSE, polite |-> FALSE, slots |-> FewSlots,
              leavers |-> Conns])
    /\ wire = NewWire("none")
    /\ cli = NoClient
    /\ codec = NoCodec

SpecTap == InitTap /\ [][NextServe]_vars

\* the server while it runs, MaxConns clients that send nothing after their
\* handshakes, what reaches one of them recorded
InitGate ==
    /\ \E s \in Conns : Start([conns |-> MaxConns, frames |-> 0, tap |-> {s},
                                forged |-> FALSE, queued |-> FALSE, polite |-> FALSE,
                                slots |-> FewSlots,
              leavers |-> Conns])
    /\ wire = NewWire("none")
    /\ cli = NoClient
    /\ codec = NoCodec

Silent(c) ==
    \/ HsRecv(c) \/ HsFind(c) \/ HsWelcome(c)
    \/ Loop(c) \/ Recv(c)
    \/ Hcd(c) \/ RcLock(c) \/ RcRelock(c)
    \/ BcLock(c) \/ BcSend(c) \/ BcUnlock(c)
    \/ SendBlocks(c)

NextGate ==
    \/ Accept
    \/ \E c \in Conns : Silent(c)

SpecGate == InitGate /\ [][NextGate]_vars

\* the steps a handler thread takes on its own once it is scheduled, without
\* waiting for its client: everything but recv()
Internal(c) ==
    \/ HsFind(c) \/ HsWelcome(c) \/ Loop(c)
    \/ Hcd(c) \/ RcLock(c) \/ RcRelock(c)
    \/ BcLock(c) \/ BcSend(c) \/ BcUnlock(c)

\* the server while it runs with threads that are scheduled fairly and
\* send() calls that return; a registry that does not fill; clients that only
\* connect, with a valid CONNECT, the first of which may leave or break off
\* while the others stay and read; what reaches the second recorded
InitLive ==
    /\ Start([conns |-> MaxConns, frames |-> 0, tap |-> {FewConns}, forged |-> FALSE,
              queued |-> FALSE, polite |-> TRUE, slots |-> MaxSlots,
              leavers |-> {1}])
    /\ wire = NewWire("none")
    /\ cli = NoClient
    /\ codec = NoCodec

NextLive ==
    \/ Accept
    \/ \E c \in Conns : HsRecv(c) \/ Recv(c) \/ Internal(c)

SpecLive == InitLive /\ [][NextLive]_vars /\ \A c \in Conns : WF_vars(Internal(c))

\* recv on a descriptor that cleanup_server_context has closed returns at once
RecvOnClosed(c) == c \notin sockOpen /\ Recv(c)

\* what a handler thread does without waiting for its client once the server
\* shuts down
Unwinding(c) ==
    \/ Internal(c) \/ PmDeact(c) \/ KaSend(c)
    \/ RecvOnClosed(c) \/ Cancelled(c)

\* the server with its shutdown path, threads that are scheduled fairly and
\* clients that read what they are sent
InitShutdown ==
    /\ Start([conns |-> FewConns, frames |-> FewFrames, tap |-> {}, forged |-> FALSE,
              queued |-> FALSE, polite |-> TRUE, slots |-> FewSlots,
              leavers |-> Conns])
    /\ wire = NewWire("none")
    /\ cli = NoClient
    /\ codec = NoCodec

NextShutdown ==
    \/ Accept \/ Signal \/ Cleanup
    \/ \E c \in Conns : HsRecv(c) \/ Recv(c) \/ Unwinding(c)

SpecShutdown ==
    /\ InitShutdown /\ [][NextShutdown]_vars
    /\ WF_vars(Cleanup)
    /\ \A c \in Conns : WF_vars(Unwinding(c))

\* the server while it runs, with clients that put any name in the sender
\* field of their CHAT frames and whose frames, queued in the socket before
\* the connection broke, are still returned by recv()
InitChat ==
    /\ Start([conns |-> FewConns, frames |-> MaxFrames, tap |-> {}, forged |-> TRUE,
              queued |-> TRUE, polite |-> FALSE, slots |-> FewSlots,
              leavers |-> Conns])
    /\ wire = NewWire("none")
    /\ cli = NoClient
    /\ codec = NoCodec

SpecChat == InitChat /\ [][NextServe]_vars

\* one connection's byte stream and the receive loop at its end, in the
\* server or in the client
InitWire ==
    /\ Start([conns |-> 0, frames |-> 0, tap |-> {}, forged |-> FALSE, queued |-> FALSE,
              polite |-> FALSE, slots |-> FewSlots,
              leavers |-> Conns])
    /\ wire \in {NewWire("server"), NewWire("client")}
    /\ cli = NoClient
    /\ codec = NoCodec

NextWire == WireSend \/ ServerRecv \/ ClientRecv

SpecWire == InitWire /\ [][NextWire]_vars

\* a client process from the start of its two threads
InitClient ==
    /\ Start([conns |-> 0, frames |-> 0, tap |-> {}, forged |-> FALSE, queued |-> FALSE,
              polite |-> FALSE, slots |-> FewSlots, leavers |-> {}])
    /\ wire = NewWire("none")
    /\ cli = ClientStarted
    /\ codec = NoCodec

\* the steps of the receive thread, of the input thread and of run_client
ReceiveThread == ReceiveLoop \/ ReceiveRecv \/ ReceiveFail \/ ReceiveExit
InputThread ==
    InputLoop \/ InputSelect \/ InputRead \/ InputCommand \/ InputQuit \/ InputExit
ClientMain == ClientWait \/ ClientPoll \/ ClientCancel \/ ClientJoin \/ ClientCleanup

NextClient ==
    \/ LinkDown \/ client_signal_handler
    \/ ReceiveThread \/ InputThread \/ ClientMain

SpecClient == InitClient /\ [][NextClient]_vars

\* the client and its handler in the server once one KEEPALIVE frame is on
\* its way to either of them, all threads scheduled fairly
InitKeepalive ==
    /\ Start([conns |-> 0, frames |-> 0, tap |-> {}, forged |-> FALSE, queued |-> FALSE,
              polite |-> FALSE, slots |-> FewSlots, leavers |-> {}])
    /\ wire = NewWire("none")
    /\ codec = NoCodec
    /\ \E to \in {"client", "server"} :
         cli = [ClientStarted EXCEPT !.ka_in = IF to = "client" THEN 1 ELSE 0,
                                     !.ka_out = IF to = "server" THEN 1 ELSE 0]

NextKeepalive == NextClient \/ ClientKeepalive \/ ServerKeepalive

SpecKeepalive ==
    /\ InitKeepalive /\ [][NextKeepalive]_vars
    /\ WF_vars(ReceiveThread \/ ClientKeepalive) /\ WF_vars(InputThread)
    /\ WF_vars(ClientMain) /\ WF_vars(ServerKeepalive)

\* the two conversions alone: any message to encode into a buffer of a size
\* around that of a message, the same cells as the bytes to decode, received
\* in a number around the size of a message; buffer and *msg start filled
\* with any one byte
InitCodec ==
    /\ Start([conns |-> 0, frames |-> 0, tap |-> {}, forged |-> FALSE, queued |-> FALSE,
              polite |-> FALSE, slots |-> FewSlots, leavers |-> {}])
    /\ cli = NoClient
    /\ wire = NewWire("none")
    /\ \E m \in Structs, t \in Bytes,
          n \in (sizeof_chat_message_t - 1)..(sizeof_chat_message_t + 1) :
         codec = [at |-> "start", msg |-> m,
                  buffer |-> [k \in CodecBuffer |-> t], buffer_size |-> n, ret |-> 0,
                  rx |-> CopyOut(m, [k \in CodecBuffer |-> t]), received |-> n,
                  out |-> CopyIn([k \in CodecBuffer |-> t]), result |-> 0]

NextCodec == Serialize \/ RoundTrip \/ Deserialize

SpecCodec == InitCodec /\ [][NextCodec]_vars

\* the same with the three threads of the client scheduled fairly
SpecClientFair ==
    /\ SpecClient
    /\ WF_vars(ReceiveThread) /\ WF_vars(InputThread) /\ WF_vars(ClientMain)

(* ------------------------------------------------------------ properties *)

\* C4: every block a receive loop decodes is one whole frame of the stream,
\* and the loop takes exactly one frame of bytes from the stream per decode,
\* so no frame is dropped or shifted however the stream is cut by recv
C4_OneFramePerDecode ==
    /\ wire.off = Len(wire.at) * FRAME_SIZE
    /\ \A k \in DOMAIN wire.at : wire.at[k] = (k - 1) * FRAME_SIZE

\* the disconnect notifications about user name n among the frames in log
NoticesIn(log, n) ==
    {k \in DOMAIN log : IsDisconnectNotice(log[k].msg) /\ log[k].msg.content[2] = n}

\* C1: however a session ends, at most one disconnect notification about it
\* is broadcast, so that no peer receives more than one
C1_OneDisconnectNotice ==
    \A n \in DOMAIN notices :
        /\ notices[n] <= 1
        /\ \A s \in Conns : Cardinality(NoticesIn(sent[s], n)) <= 1

\* C2: whenever no thread holds the mutex, client_count is the number of
\* active slots
C2_CountIsActiveSlots ==
    clients_mutex = NoOne => client_count = Cardinality(ActiveSlots)

\* C3: what a handler's cleanup deactivates, closes and announces is the
\* session of its own connection: the socket it hands to remove_client and
\* the user name it announces are those of the connection it serves
C3_CleanupOwnSession ==
    \A c \in Conns :
        /\ loc[c].rc_sock \in {NoOne, c}
        /\ loc[c].username \in {<<>>, NameOf(c)}

\* C5: no thread holds the registry mutex while it is blocked in a send()
\* to a peer that does not read
C5_NoBlockedSendUnderMutex ==
    \A c \in Conns :
        ~(/\ clients_mutex = c
          /\ pc[c] = "bc_send"
          /\ SendTarget(c) \in sockOpen
          /\ peer[SendTarget(c)] = "stalled")

\* C8: broadcast_message returns the number of sessions that were active
\* when it took the mutex, less the excluded one if it was among them, less
\* the sends that failed
C8_ReturnValue ==
    \A c \in Conns :
        pc[c] = "bc_unlock" =>
            loc[c].sent_count =
                Cardinality(loc[c].active0 \ {loc[c].excl}) - loc[c].failed

\* C10: add_client never reports the registry full while a slot is inactive
C10_FullOnlyWhenNoSlotFree ==
    [][\A c \in Conns :
          (pc[c] = "hs_recv" /\ loc'[c].client_index = -1)
              => \A i \in Slots : clients[i].active]_vars

\* the frames of log that broadcast_message sent
Broadcasts(log) == {k \in DOMAIN log : log[k].nb > 0}

\* two logged frames come from the same call of broadcast_message
SameCall(e, f) == e.by = f.by /\ e.nb = f.nb

\* C6: the sends of two broadcasts are never interleaved: two broadcasts
\* that reach the same two peers reach both in the same order, and the
\* broadcasts of one handler reach every peer in the order it issued them
C6_BroadcastOrder ==
    /\ \A s1, s2 \in Conns :
         \A k1, k2 \in Broadcasts(sent[s1]) :
           \A j1, j2 \in Broadcasts(sent[s2]) :
             (/\ s1 < s2 /\ k1 < k2
              /\ SameCall(sent[s1][k1], sent[s2][j1])
              /\ SameCall(sent[s1][k2], sent[s2][j2])) => j1 < j2
    /\ \A s \in Conns :
         \A k1, k2 \in Broadcasts(sent[s]) :
           (k1 < k2 /\ sent[s][k1].by = sent[s][k2].by)
               => sent[s][k1].nb < sent[s][k2].nb

\* two broadcasts issued by different handlers have both reached two peers
C6_Witness ==
    \E s1, s2 \in Conns :
      \E k1, k2 \in Broadcasts(sent[s1]) :
        \E j1, j2 \in Broadcasts(sent[s2]) :
          /\ s1 < s2 /\ k1 < k2
          /\ sent[s1][k1].by # sent[s1][k2].by
          /\ SameCall(sent[s1][k1], sent[s2][j1])
          /\ SameCall(sent[s1][k2], sent[s2][j2])

\* C7: broadcast_message(m, exclude) never sends to the excluded socket and
\* passes over no other slot that is active when the loop reaches it; with
\* exclude = -1 it passes over no active slot at all
C7_ExcludedOnly ==
    \A c \in Conns :
        pc[c] \in {"bc_send", "bc_unlock"} =>
            /\ loc[c].excl \notin loc[c].targets
            /\ loc[c].missed = {}

\* a broadcast that excludes an active session has sent to another one
C7_Witness ==
    \E c \in Conns :
        /\ pc[c] = "bc_unlock"
        /\ loc[c].excl \in loc[c].active0
        /\ loc[c].targets # {}

\* C9: the active sessions never exceed MAX_CLIENTS, and an add_client that
\* finds MAX_CLIENTS sessions active returns -1 and changes neither a slot
\* nor client_count
C9_FullRegistryRejects ==
    /\ [](Cardinality(ActiveSlots) <= MAX_CLIENTS)
    /\ [][\A c \in Conns :
            (/\ pc[c] = "hs_recv" /\ pc'[c] # "hs_recv"
             /\ Cardinality(ActiveSlots) = MAX_CLIENTS)
                => /\ pc'[c] = "done"
                   /\ clients' = clients
                   /\ client_count' = client_count]_vars

\* add_client has returned -1 to a handler with MAX_CLIENTS sessions active
C9_Witness ==
    \E c \in Conns :
        /\ pc[c] = "done"
        /\ loc[c].client_index = -1
        /\ Cardinality(ActiveSlots) = MAX_CLIENTS

\* a name that is not empty, has at most 31 characters, and has only
\* letters, digits and underscores
WellFormedName(n) ==
    /\ Len(n) \in 1..31
    /\ \A k \in DOMAIN n :
         n[k] \in {"a", "b", "c", "u", "S", "1", "2", "3", "4", "5", "_"}

\* C11: a connection enters the registry only in the step in which its
\* handler has received a first frame that decodes, is a CONNECT and carries
\* a well-formed sender; a handler that leaves the handshake otherwise is
\* terminated at once with its connection not registered
C11_RegisteredOnlyAfterValidConnect ==
    [][\A c \in Conns :
         /\ (c \notin ActiveSockets /\ c \in ActiveSockets')
              => /\ pc[c] = "hs_recv"
                 /\ loc'[c].rx.size >= FRAME_SIZE
                 /\ loc'[c].rx.type = MSG_CONNECT
                 /\ WellFormedName(loc'[c].rx.username)
                 /\ \E i \in Slots : /\ clients'[i].socket_fd = c
                                     /\ clients'[i].username = loc'[c].rx.username
         /\ (pc[c] = "hs_recv" /\ pc'[c] \notin {"hs_recv", "hs_find"})
              => /\ pc'[c] = "done"
                 /\ c \notin ActiveSockets'
                 /\ clients' = clients]_vars

\* a connection has been registered after its handshake
C11_Witness ==
    \E c \in Conns : pc[c] = "hs_find" /\ c \in ActiveSockets

\* handler c has just turned its connection away: add_client returned -1,
\* or the CONNECT frame it holds carries a name validate_username refused
TurnsAway(c) ==
    /\ pc[c] = "hs_recv" /\ pc'[c] = "done"
    /\ loc'[c].client_index = -1 \/ loc'[c].rx.size # 0

\* C12: a handshake rejected for an invalid user name or a full registry
\* sends exactly one ERROR frame to the connecting socket and nothing to any
\* other, changes no slot and not client_count, and closes the socket
C12_RejectionSendsOneError ==
    [][\A c \in Conns :
         TurnsAway(c) =>
           /\ clients' = clients /\ client_count' = client_count
           /\ c \in sockOpen /\ c \notin sockOpen'
           /\ c \notin ActiveSockets'
           /\ \A s \in env.tap \ {c} : sent'[s] = sent[s]
           /\ c \in env.tap =>
                \/ /\ Len(sent'[c]) = Len(sent[c]) + 1
                   /\ SubSeq(sent'[c], 1, Len(sent[c])) = sent[c]
                   /\ sent'[c][Len(sent'[c])].msg.type = MSG_ERROR
                \/ /\ sent'[c] = sent[c]
                   /\ peer[c] # "closed" /\ peer'[c] = "closed"]_vars

\* the connection turned away by a full registry has been sent one frame, an
\* ERROR, and its socket is closed
C12_Witness ==
    \E c \in Conns :
        /\ pc[c] = "done" /\ loc[c].client_index = -1
        /\ Len(sent[c]) = 1 /\ sent[c][1].msg.type = MSG_ERROR
        /\ sent[c][1].msg.content = <<"server_full">>
        /\ c \notin sockOpen
        /\ Cardinality(ActiveSlots) = MAX_CLIENTS

\* the frames of log that are the welcome
Welcomes(log) ==
    {k \in DOMAIN log : /\ log[k].msg.type = MSG_NOTIFICATION
                        /\ Len(log[k].msg.content) = 1
                        /\ log[k].msg.content[1] = "welcome"}

\* msg is the connect notification naming user name n
IsConnectNotice(msg, n) ==
    /\ msg.type = MSG_NOTIFICATION
    /\ Len(msg.content) = 2
    /\ msg.content[1] = "connected"
    /\ msg.content[2] = n

\* the frames of log that are the connect notification naming user name n
ConnectNotices(log, n) ==
    {k \in DOMAIN log : IsConnectNotice(log[k].msg, n)}

\* the handler of c is past its welcome and has not ended
Welcomed(c) ==
    pc[c] \in {"bc_lock", "bc_send", "bc_unlock", "loop", "recv", "ka_send",
               "pm_deact", "hcd", "rc_lock", "rc_relock"}

\* C13: the welcome to c and the connect notification about c are sent only
\* once c is in the registry; c is sent one welcome and never the connect
\* notification about itself; when the connect broadcast about c ends, every
\* other session that was active at its start and still is has been sent
\* exactly one connect notification naming c, and no one else has been sent
\* any (a send to a peer that is gone is not counted)
C13_WelcomeAndConnectNotice ==
    \A c \in Conns :
        /\ Cardinality(Welcomes(sent[c])) <= 1
        /\ ConnectNotices(sent[c], NameOf(c)) = {}
        /\ \A s \in Conns : Cardinality(ConnectNotices(sent[s], NameOf(c))) <= 1
        /\ (Welcomes(sent[c]) # {} \/ \E s \in Conns : ConnectNotices(sent[s], NameOf(c)) # {})
             => pc[c] \notin {"idle", "hs_recv", "hs_find"} /\ loc[c].client_index # -1
        /\ (Welcomed(c) /\ peer[c] # "closed") => Cardinality(Welcomes(sent[c])) = 1
        /\ (pc[c] = "bc_unlock" /\ IsConnectNotice(loc[c].msg, NameOf(c))) =>
             \A s \in Conns \ {c} :
                 IF s \in loc[c].active0 /\ s \in ActiveSockets /\ peer[s] # "closed"
                 THEN Cardinality(ConnectNotices(sent[s], NameOf(c))) = 1
                 ELSE s \notin loc[c].active0 => ConnectNotices(sent[s], NameOf(c)) = {}


\* C14: a CHAT frame that is broadcast carries the name its originating
\* connection registered with and the body that connection sent, whatever
\* sender field it came with and whatever became of the registry meanwhile
C14_ChatSenderAndBody ==
    \A c \in Conns :
        (pc[c] \in {"bc_lock", "bc_send", "bc_unlock"} /\ loc[c].msg.type = MSG_CHAT)
           => /\ loc[c].msg.username = NameOf(c)
              /\ loc[c].msg.content = loc[c].rx.content


\* handler c is at the send() of its broadcast to the slot it stands at
BroadcastSends(c) == pc[c] = "bc_send" /\ loc'[c].i # loc[c].i

\* msg is the connect or disconnect notification naming user name n
IsNoticeAbout(msg, n) ==
    /\ msg.type = MSG_NOTIFICATION
    /\ Len(msg.content) = 2
    /\ msg.content[1] \in {"connected", "disconnected"}
    /\ msg.content[2] = n

\* C15: a CHAT broadcast excludes no socket and has, at its end, been sent to
\* every session that was active at its start and still is, the originator
\* included; no send of a broadcast hands a connect or disconnect
\* notification to the socket of the session it names
C15_ChatToAllNoticeNotToSelf ==
    [][\A c \in Conns :
         /\ BroadcastSends(c) =>
              ~IsNoticeAbout(loc[c].msg, clients[loc[c].i].username)
         /\ (pc'[c] = "bc_unlock" /\ loc'[c].msg.type = MSG_CHAT) =>
              /\ loc'[c].excl = NoOne
              /\ (loc'[c].active0 \cap ActiveSockets') \subseteq loc'[c].targets]_vars


\* the handler of c has left its receive loop with a session registered
Ended(c) == pc[c] = "hcd"

\* C16: once the handler of a registered session has left its loop, every
\* other session active then is eventually sent a disconnect notification
\* naming the departed user, unless it stops being active
C16_DepartureAnnounced ==
    \A c \in Conns : \A s \in Conns \ {c} :
        (Ended(c) /\ s \in env.tap /\ s \in ActiveSockets)
            ~> (NoticesIn(sent[s], NameOf(c)) # {} \/ s \notin ActiveSockets)


\* the handler of c, which had registered a session, ends with this step
EndsRegistered(c) == pc[c] \notin {"idle", "hs_recv", "done"} /\ pc'[c] = "done"

\* C17: when a handler that registered a session ends while the server is
\* running, the socket of its connection is closed and no active slot holds it
C17_EndedSessionClosed ==
    [][\A c \in Conns :
         (EndsRegistered(c) /\ running') =>
             c \notin sockOpen' /\ c \notin ActiveSockets']_vars


\* C18: from the signal on the server is not running and its listening socket
\* is closed; once cleanup_server_context has completed no slot is active, no
\* slot holds an open socket and client_count is 0, whatever the handlers do
C18_CleanupIsFinal ==
    /\ mainpc \in {"cleanup", "cleaned"} => ~running /\ ~server_socket
    /\ mainpc = "cleaned" =>
         /\ ActiveSlots = {}
         /\ \A i \in Slots : clients[i].socket_fd \notin sockOpen
         /\ client_count = 0


\* C19: from the signal on, no send of a broadcast carries a disconnect
\* notification about a session that was active when the signal arrived
C19_ShutdownIsSilent ==
    [][\A c \in Conns :
         (BroadcastSends(c) /\ IsDisconnectNotice(loc[c].msg))
             => loc[c].msg.content[2] \notin atSignal]_vars


\* C20: when the receive thread or the input thread of the client has left
\* its loop and returned, running or connected is false
C20_ThreadsEndTogether ==
    (cli.rpc = "done" \/ cli.ipc = "done") => (~cli.running \/ ~cli.connected)

\* run_client has returned
ClientReturned == cli.mpc = "out"

\* C21: once ctx->running or ctx->connected is false, run_client reaches its
\* return: after at most max_timeout polls it cancels the threads, joins
\* them and runs cleanup_client_context
C21_ClientTerminates == (~cli.running \/ ~cli.connected) ~> ClientReturned

\* the DISCONNECT frames the client has sent
DisconnectsSent == {i \in DOMAIN cli.out : cli.out[i].type = MSG_DISCONNECT}

\* the input thread is past the send of /quit and leaves the command
QuitEnds == cli.ipc = "quit" /\ cli'.ipc # "quit"

\* C22: /quit sends its DISCONNECT frame before it clears running and
\* connected, which it clears both; and a client never sends more than one
\* DISCONNECT frame, whatever /quit, signals, the server's close and the
\* final cleanup do
C22_OneDisconnect ==
    /\ [](Cardinality(DisconnectsSent) <= 1)
    /\ [][QuitEnds => ~cli'.running /\ ~cli'.connected /\ cli'.out = cli.out]_vars

\* /quit has sent the DISCONNECT frame and run_client has returned after
\* its cleanup
C22_Witness ==
    /\ ClientReturned
    /\ IsQuit(cli.input)
    /\ Cardinality(DisconnectsSent) = 1
    /\ cli.ipc = "done"

\* the commands the client knows, with their short forms
Recognized ==
    { <<"/", "h", "e", "l", "p">>, <<"/", "h">>, <<"/", "q", "u", "i", "t">>, <<"/", "q">>,
      <<"/", "s", "t", "a", "t", "u", "s">>, <<"/", "s">> }

\* the input thread, with both flags set, is done with the line it read
LineHandled ==
    /\ cli.running /\ cli.connected
    /\ \/ cli.ipc = "read" /\ cli'.ipc = "loop"
       \/ cli.ipc = "command" /\ cli'.ipc # "command"

\* this step sends the line read as one CHAT frame
SendsLineAsChat ==
    /\ Len(cli'.out) = Len(cli.out) + 1
    /\ SubSeq(cli'.out, 1, Len(cli.out)) = cli.out
    /\ cli'.out[Len(cli'.out)].type = MSG_CHAT
    /\ cli'.out[Len(cli'.out)].content = cli.input

\* this step sends no CHAT frame
SendsNoChat ==
    \/ cli'.out = cli.out
    \/ /\ Len(cli'.out) = Len(cli.out) + 1
       /\ cli'.out[Len(cli'.out)].type # MSG_CHAT

RECURSIVE CString(_, _)
CString(field, k) ==
    IF k > Len(field) \/ field[k] = NUL THEN <<>>
    ELSE <<field[k]>> \o CString(field, k + 1)

\* a field holds a string that ends within the field
Terminated(field) == \E k \in DOMAIN field : field[k] = NUL

\* a valid message: one of the six kinds, sender and body terminated
ValidMessage(m) ==
    /\ m.type \in MSG_CONNECT..MSG_KEEPALIVE
    /\ Terminated(m.username)
    /\ Terminated(m.content)

\* C24: for every valid message, serialize_message into a buffer that can
\* hold it returns the one frame size, and deserialize_message of those
\* bytes succeeds with the same kind, sender, body, timestamp and length
C24_RoundTrip ==
    /\ codec.at \in {"encoded", "round"} => codec.ret = sizeof_chat_message_t
    /\ codec.at = "round" /\ ValidMessage(codec.msg) =>
         /\ codec.result = 0
         /\ codec.out.type = codec.msg.type
         /\ CString(codec.out.username, 1) = CString(codec.msg.username, 1)
         /\ CString(codec.out.content, 1) = CString(codec.msg.content, 1)
         /\ codec.out.timestamp = codec.msg.timestamp
         /\ codec.out.length = codec.msg.length

\* a valid message with a sender and a body of one character went through
\* both conversions
C24_Witness ==
    /\ codec.at = "round"
    /\ ValidMessage(codec.msg)
    /\ codec.msg.type = MSG_CHAT
    /\ CString(codec.out.username, 1) = <<MaxByte>>
    /\ CString(codec.out.content, 1) = <<MaxByte>>
    /\ codec.out.timestamp = MaxStamp

\* deserialize_message has returned
Decoded == codec.at \in {"round", "decoded"}

\* the bytes are fewer than a frame, or their type cell is none of the six kinds
Malformed ==
    \/ codec.received < sizeof_chat_message_t
    \/ codec.rx[1] \notin
         {MSG_CONNECT, MSG_DISCONNECT, MSG_CHAT, MSG_NOTIFICATION, MSG_ERROR, MSG_KEEPALIVE}

\* C25: deserialize_message returns -1 exactly when the bytes are fewer than
\* a frame or the type is none of the six kinds; otherwise it returns 0 and
\* the fields of the input, the last byte of sender and of body set to NUL
C25_DecodeFailsExactlyWhenMalformed ==
    Decoded =>
      /\ codec.result = (IF Malformed THEN -1 ELSE 0)
      /\ ~Malformed =>
           /\ codec.out.type = codec.rx[1]
           /\ \A k \in 1..NameCap :
                codec.out.username[k] = IF k = NameCap THEN NUL ELSE codec.rx[1 + k]
           /\ \A k \in 1..BodyCap :
                codec.out.content[k] = IF k = BodyCap THEN NUL ELSE codec.rx[1 + NameCap + k]
           /\ codec.out.timestamp = codec.rx[NameCap + BodyCap + 2]
           /\ codec.out.length = codec.rx[NameCap + BodyCap + 3]

\* bytes of a full frame, of a right kind, with no NUL in sender or body were
\* decoded
C25_Witness ==
    /\ codec.at = "decoded"
    /\ codec.result = 0
    /\ codec.received > sizeof_chat_message_t
    /\ \A k \in 1..(NameCap + BodyCap) : codec.rx[1 + k] # NUL
    /\ codec.out.username[NameCap] = NUL

\* this step writes to a slot of the registry or to client_count
RegistryWritten == clients' # clients \/ client_count' # client_count

\* this step is a step of handler c
StepOf(c) == pc'[c] # pc[c] \/ loc'[c] # loc[c]

\* handler c stands outside add_client, remove_client and broadcast_message
OutsideRegistry(c) == pc[c] \in {"hs_find", "recv", "pm_deact"}

\* C26: the slots of the registry and client_count are written only with
\* clients_mutex held, so never by another thread while a handler holds it,
\* and only inside add_client, remove_client, broadcast_message or the
\* shutdown: a handler outside these does not write them
C26_RegistryWritesUnderMutex ==
    [][RegistryWritten =>
         /\ clients_mutex # NoOne => StepOf(clients_mutex)
         /\ \A c \in Conns : OutsideRegistry(c) => ~StepOf(c)]_vars

\* C27: find_client reads the slots only with clients_mutex held by the
\* thread that calls it
C27_FindClientUnderMutex ==
    [][\A c \in Conns : pc[c] = "hs_find" /\ StepOf(c) => clients_mutex = c]_vars

\* handler c stands at a pthread_mutex_lock(&ctx->clients_mutex)
AtLock(c) == pc[c] \in {"bc_lock", "rc_lock", "rc_relock"}

\* the thread that holds clients_mutex is on its way to the unlock
HolderReleases == pc[clients_mutex] \in {"bc_send", "bc_unlock"}

\* C28: a thread that asks for clients_mutex does not hold it already, and
\* whenever a handler or the shutdown asks for it while it is held, the
\* holder is still on its way to its unlock: nobody waits for it for ever
C28_NoMutexDeadlock ==
    /\ \A c \in Conns : AtLock(c) => clients_mutex # c
    /\ (mainpc = "cleanup" \/ \E c \in Conns : AtLock(c)) /\ clients_mutex # NoOne
         => HolderReleases

\* the send() of handler c's broadcast_message fails in this step
SendFails(c) == pc[c] = "bc_send" /\ loc'[c].failed = loc[c].failed + 1

\* the slots after slot i that are active and do not hold socket excl
LaterPeers(i, excl) ==
    {j \in Slots : j > i /\ clients[j].active /\ clients[j].socket_fd # excl}

\* C29: when a send() of broadcast_message fails, the slot it was sent to is
\* marked inactive and the loop goes on: it stands next at the first later
\* slot that is active and not excluded, and ends only when there is none
C29_FailedSendDoesNotStopBroadcast ==
    [][\A c \in Conns : SendFails(c) =>
         /\ ~clients'[loc[c].i].active
         /\ IF LaterPeers(loc[c].i, loc[c].excl) = {}
            THEN pc'[c] = "bc_unlock"
            ELSE /\ pc'[c] = "bc_send"
                 /\ loc'[c].i \in LaterPeers(loc[c].i, loc[c].excl)
                 /\ \A j \in LaterPeers(loc[c].i, loc[c].excl) : loc'[c].i <= j]_vars

\* a broadcast to everyone failed at the first slot, which is inactive now,
\* and then reached the second slot
C29_Witness ==
    \E c \in Conns :
      /\ pc[c] = "bc_unlock"
      /\ loc[c].excl = NoOne
      /\ loc[c].failed = 1 /\ loc[c].sent_count = 1
      /\ ~clients[1].active /\ clients[1].socket_fd \in loc[c].targets
      /\ clients[2].active /\ clients[2].socket_fd \in loc[c].targets

Added(c) == pc[c] = "hs_recv" /\ pc'[c] = "hs_find"

\* C31: a successful add_client puts the new session into the inactive slot
\* of lowest index and leaves every other slot as it was
C31_LowestFreeSlot ==
    [][\A c \in Conns : Added(c) =>
         \E idx \in Slots :
           /\ ~clients[idx].active
           /\ \A j \in Slots : j < idx => clients[j].active
           /\ clients'[idx].active
           /\ clients'[idx].socket_fd = c
           /\ \A j \in Slots : j # idx => clients'[j] = clients[j]]_vars

\* the last connection has just been given the first slot, free again, while
\* the second slot is in use
C31_Witness ==
    /\ pc[MaxConns] = "hs_find"
    /\ clients[1].active /\ clients[1].socket_fd = MaxConns
    /\ clients[2].active /\ clients[2].socket_fd # MaxConns

\* the slot handler c points at is active and holds c's socket
OwnSession(c) ==
    /\ loc[c].client # NULL
    /\ clients[loc[c].client].active
    /\ clients[loc[c].client].socket_fd = c

\* the reply of handler c to a KEEPALIVE frame, as logged on a socket
KeepaliveReply(c) == LogEntry(c, 0, init_message(MSG_KEEPALIVE, Sistema, ""))

\* handler c takes a KEEPALIVE frame from its socket in this step
KeepaliveTaken(c) == pc[c] = "recv" /\ pc'[c] = "ka_send"

\* handler c, its session active, answers a KEEPALIVE frame in this step
KeepaliveAnswered(c) == pc[c] = "ka_send" /\ pc'[c] # "ka_send" /\ OwnSession(c)

LoopState == <<running, server_socket, accepted, clients, client_count, sockOpen, pc>>

\* C33: after accept() failed with EINTR while running is set the loop calls
\* accept() again; after any other failure the loop is left for
\* cleanup_server_context, which leaves no slot active, no session socket
\* open and the listening socket closed; a connection whose handler could
\* not be spawned is closed and nothing else changes
C33_AcceptFailures ==
    [][/\ mainpc = "eintr" /\ running /\ mainpc' # mainpc
            => mainpc' = "accept" /\ UNCHANGED LoopState
       /\ mainpc = "error" /\ mainpc' # mainpc
            => mainpc' = "cleanup" /\ UNCHANGED LoopState
       /\ mainpc = "cleanup" /\ mainpc' # mainpc
            => /\ mainpc' = "cleaned"
               /\ ~running' /\ ~server_socket'
               /\ client_count' = 0
               /\ \A i \in Slots : ~clients'[i].active
               /\ \A i \in Slots : clients[i].active => clients[i].socket_fd \notin sockOpen'
       /\ accepted' # accepted /\ pc'[accepted'] = "idle"
            => /\ accepted' \notin sockOpen'
               /\ mainpc' = "accept"
               /\ UNCHANGED <<running, server_socket, clients, client_count, sockOpen, pc>>
      ]_vars

\* accept() failed for good while a session was registered and another
\* connection had been turned away for want of a handler: the loop was left
\* and the session torn down
C33_Witness ==
    /\ mainpc = "cleaned"
    /\ ~running
    /\ \E c \in Conns : c <= accepted /\ pc[c] = "idle"
    /\ cancel # {}

\* run_client leaves its first wait and starts to poll its threads
GraceStarts == cli.mpc = "wait" /\ cli'.mpc = "poll"

\* C34 as stated: run_client leaves its first wait only once running and
\* connected are both false
C34_WaitsForBothFlags ==
    [][GraceStarts => ~cli.running /\ ~cli.connected]_vars

\* C34, amended: run_client leaves its first wait only once running or
\* connected is false, and one of them stays false from then on
C34_WaitsForOneFlag ==
    /\ [][GraceStarts => ~cli.running \/ ~cli.connected]_vars
    /\ [](cli.mpc \in {"poll", "test", "join", "cleanup", "out"}
            => ~cli.running \/ ~cli.connected)

\* after a signal run_client polls its threads while connected is still set
C34_Witness ==
    /\ cli.mpc = "poll"
    /\ ~cli.running
    /\ cli.connected

\* C35: client_count is never below 0 nor above MAX_CLIENTS
C35_ClientCountInRange == client_count \in 0..MAX_CLIENTS

\* handler c has put its session into the registry and has not sent the
\* welcome yet
BeforeWelcome(c) == pc[c] \in {"hs_find", "hs_welcome"}

\* C36: nothing is sent to a new session's socket between its insertion
\* into the registry and its welcome, so the welcome is its first frame
C36_WelcomeComesFirst ==
    \A c \in Conns : BeforeWelcome(c) => sent[c] = <<>>

\* no KEEPALIVE frame is on its way
KeepaliveQuiet == cli.ka_in = 0 /\ cli.ka_out = 0

\* one end of the client's connection is gone
ConnectionOver == cli.link = "down" \/ ~cli.running \/ ~cli.connected

\* C37: once a KEEPALIVE frame has reached the server's handler or the
\* client, the exchange of KEEPALIVE frames on the connection comes to an
\* end while both ends stay connected
C37_KeepaliveExchangeEnds == <>(KeepaliveQuiet \/ ConnectionOver)

\* C39: when run_client has returned, the client's socket to the server is
\* closed, whether the run ended with /quit, with a termination signal or
\* with the receive thread finding the connection closed or broken
C39_SocketClosedAtReturn == ClientReturned => ~cli.sock

\* the handler thread of c has ended, or was never started
HandlerOver(c) == pc[c] \in {"idle", "done", "cancelled"}

\* C38: once the server's shutdown has begun, every handler thread ends,
\* the one that still waits for the first frame of its connection included
C38_HandlersEndAtShutdown ==
    \A c \in Conns : ~running ~> HandlerOver(c)

====
